---- MODULE Spec2Model ----
(***************************************************************************)
(* The realtime presence and message-fanout engine of the chat server:     *)
(* the clients registry (userId -> WebSocket[]), the per-connection        *)
(* closure state (authenticated, currentUserId), broadcast, and the        *)
(* message / close handlers of wss.on('connection'), together with the     *)
(* parts of the conversation store and of the auth module they call.       *)
(*                                                                         *)
(* Every handler runs to completion (Node's single-threaded event loop),   *)
(* so each handler is one action.  The variable fx holds, in code order,   *)
(* the side effects of the handler that ran last; event holds the inbound  *)
(* event that handler was given.                                           *)
(***************************************************************************)
EXTENDS Integers, Sequences, FiniteSets, TLC, Bags

\* ------------------------------------------------------------------ bounds
NumSessions == 2      \* transport connections accepted in one run
NumUsers == 2         \* registered users
MaxAuth == 2          \* successful auth events handled in one run of Spec
MaxReauth == 3        \* successful auth events handled in one run of SpecPresence
MaxConvs == 2         \* conversations in the store
MaxMessages == 1      \* messages persisted in one run
MaxMemberRecords == 4 \* membership records written in one run of SpecStore
MaxDelivered == 4     \* distinct messages the server delivers to the client
MaxTimers == 3        \* typing timers of the client pending at one time
MaxSockets == 3       \* WebSockets the client constructs in one run

Sessions == 1..NumSessions
Users == 1..NumUsers
NoUser == 0           \* currentUserId = null / userId undefined
ConvIds == 1..MaxConvs
Contents == {"hi"}
NoConversation == 0   \* message.conversationId undefined
NoContent == "undefined"   \* message.content undefined
\* req.body.memberIds of POST /api/conversations: one or two user ids, the
\* caller's own id and repeated ids included
MemberIdLists == {<<u>> : u \in Users} \cup {<<u, v>> : u, v \in Users}

\* ------------------------------------------------------------------- state
VARIABLES
  readyState,           \* ws.readyState of every connection
  authenticated,        \* closure variable `authenticated` of a connection
  currentUserId,        \* closure variable `currentUserId` of a connection
  clients,              \* the Map userId -> WebSocket[]
  authLog,              \* user ids of the successful auth events handled, per session
  userStatus,           \* db.users[].status
  conversations,        \* db.conversations
  conversationMembers,  \* db.conversationMembers
  messages,             \* db.messages
  now,                  \* the clock read by new Date()
  offlineCount,         \* user_status offline broadcasts made so far, per user
  event,                \* the inbound event handled by the last step
  fx,                   \* the side effects of the last step, in code order
  \* the client: useChatStore, useAuthStore and the browser's sockets and timers
  storeConversations,   \* useChatStore conversations
  storeMessages,        \* useChatStore messages: conversation id -> Message[]
  typingUsers,          \* useChatStore typingUsers
  typingTimers,         \* pending setTimeout(5000) callbacks, per pair
  socketState,          \* readyState of every WebSocket the client constructed
  storeWs,              \* useChatStore ws: a socket, or NoSocket for null
  isConnected,          \* useChatStore isConnected
  authToken,            \* useAuthStore token is set
  reconnectTimers       \* pending setTimeout(3000) callbacks of ws.onclose

clientVars == <<storeConversations, storeMessages, typingUsers, typingTimers,
                socketState, storeWs, isConnected, authToken, reconnectTimers>>

\* the state of the server, the last event apart
serverVars == <<readyState, authenticated, currentUserId, clients, authLog,
                userStatus, conversations, conversationMembers, messages, now,
                offlineCount, fx>>

vars == <<readyState, authenticated, currentUserId, clients, authLog,
          userStatus, conversations, conversationMembers, messages, now,
          offlineCount, event, fx, storeConversations, storeMessages,
          typingUsers, typingTimers, socketState, storeWs, isConnected,
          authToken, reconnectTimers>>

sessionVars == <<readyState, authenticated, currentUserId, authLog>>
dbVars == <<userStatus, conversations, conversationMembers, messages, now>>

\* --------------------------------------------------------- sequence helpers
Range(s) == {s[i] : i \in 1..Len(s)}

RECURSIVE Concat(_)
\* flattening of a sequence of sequences (nested for-of loops)
Concat(ss) == IF ss = <<>> THEN <<>> ELSE Head(ss) \o Concat(Tail(ss))

RECURSIVE indexOf(_, _)
\* Array.prototype.indexOf, 1-based; 0 when absent (-1 in the code)
indexOf(arr, x) ==
  IF arr = <<>> THEN 0
  ELSE IF Head(arr) = x THEN 1
  ELSE LET r == indexOf(Tail(arr), x) IN IF r = 0 THEN 0 ELSE r + 1

\* Array.prototype.splice(index, 1), 1-based
splice(arr, index) ==
  [i \in 1..(Len(arr) - 1) |-> IF i < index THEN arr[i] ELSE arr[i + 1]]

RECURSIVE SetInsertAll(_, _)
\* new Set<string>() filled by .add in order, then Array.from: first
\* occurrences in insertion order
SetInsertAll(acc, xs) ==
  IF xs = <<>> THEN acc
  ELSE SetInsertAll(IF Head(xs) \in Range(acc) THEN acc ELSE Append(acc, Head(xs)),
                    Tail(xs))

\* ------------------------------------------------------------- auth module
\* A token as the server sees it: whether jwt.verify accepts it (signature
\* and expiry) and the userId claim it carries.
Tokens == [signed : {TRUE}, userId : Users] \cup {[signed |-> FALSE, userId |-> 1]}
\* message.token of an auth frame that carries no token: undefined, which
\* jwt.verify refuses ("jwt must be provided")
NoToken == [signed |-> FALSE, userId |-> NoUser]

\* the write of the stored status left out
updateUserStatus_stale(status, userId, s) == status

updateUserStatus(status, userId, s) ==
  IF userId \in Users THEN [status EXCEPT ![userId] = s] ELSE status

\* jwt.decode in place of jwt.verify: the signature is not checked
verifyToken_unverified(token) == [valid |-> TRUE, userId |-> token.userId]

verifyToken(token) ==
  IF token.signed THEN [valid |-> TRUE, userId |-> token.userId]
                  ELSE [valid |-> FALSE, userId |-> NoUser]

getUserById(status, id) ==
  IF id \in Users THEN [id |-> id, displayName |-> id, status |-> status[id]]
                  ELSE [id |-> NoUser, displayName |-> NoUser, status |-> "none"]


\* ------------------------------------------------------- conversation store
findConversationById(convs, id) == {i \in 1..Len(convs) : convs[i].id = id}

getConversationMembers(cm, conversationId) ==
  LET sel == SelectSeq(cm, LAMBDA m : m.conversationId = conversationId)
  IN  [i \in 1..Len(sel) |-> sel[i].userId]

getUserConversationIds(cm, userId) ==
  LET sel == SelectSeq(cm, LAMBDA m : m.userId = userId)
  IN  [i \in 1..Len(sel) |-> sel[i].conversationId]

\* getConversation: the record of an existing conversation with the ids of
\* its members that getUserById finds
getConversation(convs, cm, id) ==
  LET c == convs[CHOOSE i \in findConversationById(convs, id) : TRUE]
  IN  [id |-> id,
       members |-> SelectSeq(getConversationMembers(cm, id), LAMBDA u : u \in Users),
       updatedAt |-> c.updatedAt]

RECURSIVE InsertByTime(_, _)
\* position of c in a list kept newest-first; equal times keep their order
InsertByTime(sorted, c) ==
  IF sorted = <<>> THEN <<c>>
  ELSE IF Head(sorted).updatedAt >= c.updatedAt
       THEN <<Head(sorted)>> \o InsertByTime(Tail(sorted), c)
       ELSE <<c>> \o sorted

RECURSIVE SortByTime(_, _)
SortByTime(acc, cs) ==
  IF cs = <<>> THEN acc ELSE SortByTime(InsertByTime(acc, Head(cs)), Tail(cs))

getUserConversations(convs, cm, userId) ==
  LET convIds == SelectSeq(getUserConversationIds(cm, userId),
                           LAMBDA id : findConversationById(convs, id) # {})
      found == [i \in 1..Len(convIds) |-> getConversation(convs, cm, convIds[i])]
  IN  SortByTime(<<>>, found)

\* the member.id !== userId test left out
friendIds_withSelf(convs, cm, userId) ==
  LET cs == getUserConversations(convs, cm, userId)
      all == Concat([i \in 1..Len(cs) |-> cs[i].members])
  IN  SetInsertAll(<<>>, all)

\* the friendIds set built in the auth and in the close handler
friendIds(convs, cm, userId) ==
  LET cs == getUserConversations(convs, cm, userId)
      all == Concat([i \in 1..Len(cs) |-> cs[i].members])
  IN  SetInsertAll(<<>>, SelectSeq(all, LAMBDA m : m # userId))

\* ---------------------------------------------------------------- broadcast
Send(ws, payload) == [kind |-> "send", to |-> ws, payload |-> payload]

\* the sends of broadcast(userIds, message) over registry reg and transport
\* states rs, in the order of the two nested loops
\* the check of ws.readyState left out
Deliveries_unfiltered(reg, rs, userIds, payload) ==
  Concat([i \in 1..Len(userIds) |->
            IF userIds[i] \in DOMAIN reg
            THEN [j \in 1..Len(reg[userIds[i]]) |-> Send(reg[userIds[i]][j], payload)]
            ELSE <<>>])

Deliveries(reg, rs, userIds, payload) ==
  Concat([i \in 1..Len(userIds) |->
            IF userIds[i] \in DOMAIN reg
            THEN LET open == SelectSeq(reg[userIds[i]], LAMBDA ws : rs[ws] = "OPEN")
                 IN  [j \in 1..Len(open) |-> Send(open[j], payload)]
            ELSE <<>>])

broadcast(reg, rs, userIds, payload) ==
  <<[kind |-> "broadcast", userIds |-> userIds, payload |-> payload]>>
  \o Deliveries(reg, rs, userIds, payload)

\* ------------------------------------------------------------ the registry
\* clients.get(userId) || [], push(ws), clients.set(userId, userClients)
RegistryAdd(reg, userId, ws) ==
  LET userClients == IF userId \in DOMAIN reg THEN reg[userId] ELSE <<>>
  IN  [u \in DOMAIN reg \cup {userId} |->
         IF u = userId THEN Append(userClients, ws) ELSE reg[u]]

\* the removal of the close handler: indexOf, splice, then delete or set
RegistryRemove(reg, userId, ws) ==
  IF userId \notin DOMAIN reg THEN reg
  ELSE LET index == indexOf(reg[userId], ws)
           userClients == IF index > 0 THEN splice(reg[userId], index) ELSE reg[userId]
       IN  IF Len(userClients) = 0
           THEN [u \in DOMAIN reg \ {userId} |-> reg[u]]
           ELSE [reg EXCEPT ![userId] = userClients]

\* -------------------------------------------------------------------- Init
\* ------------------------------------------------------------- the client
ClientSockets == 1..MaxSockets
NoSocket == 0         \* ws: null
NoMessage == [id |-> 0, conversationId |-> 0, createdAt |-> 0]   \* lastMessage: null

\* The client stores as create() builds them, before any socket is made.
ClientInit ==
  /\ storeConversations = <<>>
  /\ storeMessages = <<>>
  /\ typingUsers = <<>>
  /\ typingTimers = EmptyBag
  /\ socketState = [k \in ClientSockets |-> "NONE"]
  /\ storeWs = NoSocket
  /\ isConnected = FALSE
  /\ authToken = FALSE
  /\ reconnectTimers = 0

\* The server has just started listening: no connection, an empty registry,
\* and the database loadDb read from disk, which holds the registered users
\* and the direct conversation that user 1 created with user 2.
Init ==
  /\ readyState = [s \in Sessions |-> "NONE"]
  /\ authenticated = [s \in Sessions |-> FALSE]
  /\ currentUserId = [s \in Sessions |-> NoUser]
  /\ clients = <<>>
  /\ authLog = [s \in Sessions |-> <<>>]
  /\ userStatus = [u \in Users |-> "online"]
  /\ conversations = <<[id |-> 1, isGroup |-> FALSE, updatedAt |-> 0]>>
  /\ conversationMembers = <<[conversationId |-> 1, userId |-> 1],
                             [conversationId |-> 1, userId |-> 2]>>
  /\ messages = <<>>
  /\ now = 0
  /\ offlineCount = [u \in Users |-> 0]
  /\ event = [type |-> "listen", ws |-> 0]
  /\ fx = <<>>
  /\ ClientInit

\* ------------------------------------------------------------- connections
\* wss.on('connection'): a new connection with its two closure variables;
\* handles are numbered in the order the connections are accepted
Connection(ws) ==
  /\ UNCHANGED clientVars
  /\ readyState[ws] = "NONE"
  /\ \A s \in Sessions : s < ws => readyState[s] # "NONE"
  /\ readyState' = [readyState EXCEPT ![ws] = "OPEN"]
  /\ authenticated' = [authenticated EXCEPT ![ws] = FALSE]
  /\ currentUserId' = [currentUserId EXCEPT ![ws] = NoUser]
  /\ event' = [type |-> "connection", ws |-> ws]
  /\ fx' = <<>>
  /\ UNCHANGED <<clients, authLog, offlineCount>>
  /\ UNCHANGED dbVars

\* the peer's close frame arrives: readyState is CLOSING until the socket
\* has ended and 'close' is emitted; no handler of the server runs
BeginClose(ws) ==
  /\ UNCHANGED clientVars
  /\ readyState[ws] = "OPEN"
  /\ readyState' = [readyState EXCEPT ![ws] = "CLOSING"]
  /\ event' = [type |-> "closing", ws |-> ws]
  /\ fx' = <<>>
  /\ UNCHANGED <<authenticated, currentUserId, clients, authLog, offlineCount>>
  /\ UNCHANGED dbVars

\* ws.on('error'): the transport failed; ws has set readyState to CLOSING and
\* emits 'close' once the socket is destroyed; the handler only logs
Error(ws) ==
  /\ UNCHANGED clientVars
  /\ readyState[ws] = "OPEN"
  /\ readyState' = [readyState EXCEPT ![ws] = "CLOSING"]
  /\ event' = [type |-> "error", ws |-> ws]
  /\ fx' = <<[kind |-> "console.error"]>>
  /\ UNCHANGED <<authenticated, currentUserId, clients, authLog, offlineCount>>
  /\ UNCHANGED dbVars

\* ---------------------------------------------------------------- payloads
AuthSuccess(user) == [type |-> "auth_success", user |-> user]
AuthError == [type |-> "auth_error", error |-> "Invalid token"]
NotAuthenticated == [type |-> "error", error |-> "Not authenticated"]
UserStatus(userId, status) == [type |-> "user_status", userId |-> userId, status |-> status]
NewMessage(msg) == [type |-> "new_message", message |-> msg]
TypingEvent(conversationId, userId, userName, isTyping) ==
  [type |-> "typing", conversationId |-> conversationId, userId |-> userId,
   userName |-> userName, isTyping |-> isTyping]
Pong == [type |-> "pong"]

\* ------------------------------------------------------------- case 'auth'
\* the effects of the success branch, given the registry reg after the push
\* and the stored statuses status after updateUserStatus
\* the online broadcast made only when the push created the user's entry
AuthSuccessFx_edge(ws, userId, reg, status) ==
  <<[kind |-> "clients.set", userId |-> userId, sessions |-> reg[userId]],
    [kind |-> "updateUserStatus", userId |-> userId, status |-> "online"],
    Send(ws, AuthSuccess(getUserById(status, userId)))>>
  \o (IF Len(reg[userId]) = 1
      THEN broadcast(reg, readyState, friendIds(conversations, conversationMembers, userId),
                     UserStatus(userId, "online"))
      ELSE <<>>)

\* the online status stored but not broadcast
AuthSuccessFx_quiet(ws, userId, reg, status) ==
  <<[kind |-> "clients.set", userId |-> userId, sessions |-> reg[userId]],
    [kind |-> "updateUserStatus", userId |-> userId, status |-> "online"],
    Send(ws, AuthSuccess(getUserById(status, userId)))>>

\* the friends notified before auth_success is sent
AuthSuccessFx_early(ws, userId, reg, status) ==
  <<[kind |-> "clients.set", userId |-> userId, sessions |-> reg[userId]],
    [kind |-> "updateUserStatus", userId |-> userId, status |-> "online"]>>
  \o broadcast(reg, readyState, friendIds(conversations, conversationMembers, userId),
               UserStatus(userId, "online"))
  \o <<Send(ws, AuthSuccess(getUserById(status, userId)))>>

AuthSuccessFx(ws, userId, reg, status) ==
  <<[kind |-> "clients.set", userId |-> userId, sessions |-> reg[userId]],
    [kind |-> "updateUserStatus", userId |-> userId, status |-> "online"],
    Send(ws, AuthSuccess(getUserById(status, userId)))>>
  \o broadcast(reg, readyState, friendIds(conversations, conversationMembers, userId),
               UserStatus(userId, "online"))

\* the event handled last was a refused auth of this session
AuthFailedOn(ws) == event.type = "auth" /\ event.ws = ws /\ ~event.token.signed

\* a refused auth that also terminates the connection
Auth_fatal(ws, token) ==
  /\ UNCHANGED clientVars
  /\ readyState[ws] = "OPEN"
  /\ event' = [type |-> "auth", ws |-> ws, token |-> token,
               retry |-> AuthFailedOn(ws)]
  /\ LET v == verifyToken(token)
         userId == v.userId
     IN  IF v.valid /\ userId # NoUser
         THEN LET reg == RegistryAdd(clients, userId, ws)
                  status == updateUserStatus(userStatus, userId, "online")
              IN  /\ authLog' = [authLog EXCEPT ![ws] = Append(@, userId)]
                  /\ authenticated' = [authenticated EXCEPT ![ws] = TRUE]
                  /\ currentUserId' = [currentUserId EXCEPT ![ws] = userId]
                  /\ clients' = reg
                  /\ userStatus' = status
                  /\ fx' = AuthSuccessFx(ws, userId, reg, status)
                  /\ UNCHANGED <<readyState, offlineCount, conversations,
                                 conversationMembers, messages, now>>
         ELSE /\ fx' = <<Send(ws, AuthError)>>
              /\ readyState' = [readyState EXCEPT ![ws] = "CLOSING"]
              /\ UNCHANGED <<clients, offlineCount, authenticated, currentUserId, authLog>>
              /\ UNCHANGED dbVars

\* a refused auth that also signs the session out
Auth_reset(ws, token) ==
  /\ UNCHANGED clientVars
  /\ readyState[ws] = "OPEN"
  /\ event' = [type |-> "auth", ws |-> ws, token |-> token,
               retry |-> AuthFailedOn(ws)]
  /\ LET v == verifyToken(token)
         userId == v.userId
     IN  IF v.valid /\ userId # NoUser
         THEN LET reg == RegistryAdd(clients, userId, ws)
                  status == updateUserStatus(userStatus, userId, "online")
              IN  /\ authLog' = [authLog EXCEPT ![ws] = Append(@, userId)]
                  /\ authenticated' = [authenticated EXCEPT ![ws] = TRUE]
                  /\ currentUserId' = [currentUserId EXCEPT ![ws] = userId]
                  /\ clients' = reg
                  /\ userStatus' = status
                  /\ fx' = AuthSuccessFx(ws, userId, reg, status)
                  /\ UNCHANGED <<readyState, offlineCount, conversations,
                                 conversationMembers, messages, now>>
         ELSE /\ fx' = <<Send(ws, AuthError)>>
              /\ authenticated' = [authenticated EXCEPT ![ws] = FALSE]
              /\ currentUserId' = [currentUserId EXCEPT ![ws] = NoUser]
              /\ UNCHANGED <<clients, offlineCount, readyState, authLog>>
              /\ UNCHANGED dbVars

Auth(ws, token) ==
  /\ UNCHANGED clientVars
  /\ readyState[ws] = "OPEN"
  /\ event' = [type |-> "auth", ws |-> ws, token |-> token,
               retry |-> AuthFailedOn(ws)]
  /\ LET v == verifyToken(token)
         userId == v.userId
     IN  IF v.valid /\ userId # NoUser
         THEN LET reg == RegistryAdd(clients, userId, ws)
                  status == updateUserStatus(userStatus, userId, "online")
              IN  /\ authLog' = [authLog EXCEPT ![ws] = Append(@, userId)]
                  /\ authenticated' = [authenticated EXCEPT ![ws] = TRUE]
                  /\ currentUserId' = [currentUserId EXCEPT ![ws] = userId]
                  /\ clients' = reg
                  /\ userStatus' = status
                  /\ fx' = AuthSuccessFx(ws, userId, reg, status)
                  /\ UNCHANGED <<readyState, offlineCount, conversations,
                                 conversationMembers, messages, now>>
         ELSE /\ fx' = <<Send(ws, AuthError)>>
              /\ UNCHANGED <<clients, offlineCount>>
              /\ UNCHANGED sessionVars
              /\ UNCHANGED dbVars

\* ---------------------------------------------------------- case 'message'
\* conversations.ts sendMessage: createMessage, updateConversation, and the
\* record returned; id is the fresh uuid, at the clock value read
sendMessage(status, id, at, conversationId, senderId, content) ==
  [id |-> id, conversationId |-> conversationId, senderId |-> senderId,
   senderName |-> getUserById(status, senderId).displayName,
   content |-> content, createdAt |-> at]

updateConversation(convs, id, at) ==
  [i \in 1..Len(convs) |->
     IF convs[i].id = id THEN [convs[i] EXCEPT !.updatedAt = at] ELSE convs[i]]

\* the user id of the frame trusted when the frame carries one
identityOf_payload(ws, payloadUserId) ==
  IF payloadUserId # NoUser THEN payloadUserId ELSE currentUserId[ws]

\* The identity the handlers of ws act under: the closure variable
\* currentUserId set by case 'auth'.  The destructuring of the frame reads no
\* user id, so a senderId or userId field of the frame is dropped.
identityOf(ws, payloadUserId) == currentUserId[ws]

\* the check of `authenticated` left out
MessageRejected_unchecked(ws) == FALSE

\* the precondition check of case 'message'
MessageRejected(ws) == ~authenticated[ws] \/ currentUserId[ws] = NoUser

\* The statement of sendMessage's try block that raises an exception, "none"
\* when it runs to its return; after a throw the catch logs and returns null.
Throws == {"none", "createMessage", "updateConversation", "getUserById"}

\* the effects of sendMessage on the store, in order, when `thrown` raises
StoreFx(msg, thrown) ==
  (IF thrown # "createMessage"
   THEN <<[kind |-> "createMessage", message |-> msg]>> ELSE <<>>)
  \o (IF thrown # "none" THEN <<[kind |-> "console.error"]>> ELSE <<>>)

\* the handler after sendMessage: if (msg) broadcast to getConversationMembers
\* the sender told of the failure
SentFx_notify(reg, rs, memberIds, msg, returned) ==
  IF returned THEN broadcast(reg, rs, memberIds, NewMessage(msg))
              ELSE IF msg.senderId \in DOMAIN reg
                   THEN Deliveries(reg, rs, <<msg.senderId>>,
                                   [type |-> "error", error |-> "Send failed"])
                   ELSE <<>>

\* the sender left out of the recipients, as case 'typing' does
SentFx_others(reg, rs, memberIds, msg, returned) ==
  IF returned
  THEN broadcast(reg, rs, SelectSeq(memberIds, LAMBDA id : id # msg.senderId),
                 NewMessage(msg))
  ELSE <<>>

SentFx(reg, rs, memberIds, msg, returned) ==
  IF returned THEN broadcast(reg, rs, memberIds, NewMessage(msg)) ELSE <<>>

\* payloadUserId is the senderId field of the frame, NoUser when it has none
Message(ws, conversationId, content, thrown, payloadUserId) ==
  /\ UNCHANGED clientVars
  /\ readyState[ws] = "OPEN"
  /\ event' = [type |-> "message", ws |-> ws, conversationId |-> conversationId,
               content |-> content, thrown |-> thrown,
               payloadUserId |-> payloadUserId]
  /\ IF MessageRejected(ws)
     THEN /\ thrown = "none"
          /\ fx' = <<Send(ws, NotAuthenticated)>>
          /\ UNCHANGED <<clients, offlineCount>>
          /\ UNCHANGED sessionVars
          /\ UNCHANGED dbVars
     ELSE LET msg == sendMessage(userStatus, Len(messages) + 1, now + 1,
                                 conversationId, identityOf(ws, payloadUserId),
                                 content)
              memberIds == getConversationMembers(conversationMembers, conversationId)
          IN  /\ messages' = IF thrown # "createMessage"
                             THEN Append(messages, msg) ELSE messages
              /\ conversations' = IF thrown \in {"none", "getUserById"}
                                  THEN updateConversation(conversations, conversationId,
                                                          now + 1)
                                  ELSE conversations
              /\ now' = IF thrown # "createMessage" THEN now + 1 ELSE now
              /\ fx' = StoreFx(msg, thrown)
                       \o SentFx(clients, readyState, memberIds, msg, thrown = "none")
              /\ UNCHANGED <<clients, offlineCount, userStatus, conversationMembers>>
              /\ UNCHANGED sessionVars

\* ----------------------------------------------------------- case 'typing'
\* payloadUserId is the userId field of the frame, NoUser when it has none
Typing(ws, conversationId, isTyping, payloadUserId) ==
  /\ UNCHANGED clientVars
  /\ readyState[ws] = "OPEN"
  /\ event' = [type |-> "typing", ws |-> ws, conversationId |-> conversationId,
               isTyping |-> isTyping, payloadUserId |-> payloadUserId]
  /\ IF ~authenticated[ws] \/ currentUserId[ws] = NoUser
     THEN fx' = <<>>
     ELSE LET user == getUserById(userStatus, currentUserId[ws])
              memberIds == getConversationMembers(conversationMembers, conversationId)
          IN  fx' = broadcast(clients, readyState,
                              SelectSeq(memberIds, LAMBDA id : id # currentUserId[ws]),
                              TypingEvent(conversationId,
                                          identityOf(ws, payloadUserId),
                                          user.displayName, isTyping))
  /\ UNCHANGED <<clients, offlineCount>>
  /\ UNCHANGED sessionVars
  /\ UNCHANGED dbVars

\* ------------------------------------------------------------- case 'ping'
\* ping given the precondition check of case 'message'
Ping_authenticated(ws) ==
  /\ UNCHANGED clientVars
  /\ readyState[ws] = "OPEN"
  /\ event' = [type |-> "ping", ws |-> ws]
  /\ fx' = IF ~authenticated[ws] \/ currentUserId[ws] = NoUser
           THEN <<Send(ws, NotAuthenticated)>>
           ELSE <<Send(ws, Pong)>>
  /\ UNCHANGED <<clients, offlineCount>>
  /\ UNCHANGED sessionVars
  /\ UNCHANGED dbVars

Ping(ws) ==
  /\ UNCHANGED clientVars
  /\ readyState[ws] = "OPEN"
  /\ event' = [type |-> "ping", ws |-> ws]
  /\ fx' = <<Send(ws, Pong)>>
  /\ UNCHANGED <<clients, offlineCount>>
  /\ UNCHANGED sessionVars
  /\ UNCHANGED dbVars

\* ------------------------------------------------- frames without a case
\* Frames that reach none of the four cases: text that is not JSON, the JSON
\* value null, an object without a type, and an object of an unknown type.
RawFrames == {"{", "null", "{}", "{\"type\":\"reaction\"}"}
InboundTypes == {"auth", "message", "typing", "ping"}

\* JSON.parse(data.toString()): whether it returns, and the value returned
JSONparse(data) ==
  CASE data = "null" -> [ok |-> TRUE, isObject |-> FALSE, value |-> <<>>]
    [] data = "{}" -> [ok |-> TRUE, isObject |-> TRUE, value |-> <<>>]
    [] data = "{\"type\":\"reaction\"}" ->
         [ok |-> TRUE, isObject |-> TRUE, value |-> [type |-> "reaction"]]
    [] OTHER -> [ok |-> FALSE, isObject |-> FALSE, value |-> <<>>]

\* message.type: a TypeError on null, undefined when the field is absent
TypeOf(parsed) ==
  IF ~parsed.isObject THEN "TypeError"
  ELSE IF "type" \in DOMAIN parsed.value THEN parsed.value.type ELSE "undefined"

\* the catch block answering the sender
CatchFx_reply(ws) ==
  <<[kind |-> "console.error"], Send(ws, [type |-> "error", error |-> "Bad request"])>>

\* catch (error): console.error and nothing else
CatchFx(ws) == <<[kind |-> "console.error"]>>

\* a default case answering the sender
NoCaseFx_reply(ws) == <<Send(ws, [type |-> "error", error |-> "Unknown type"])>>

\* the switch has no default case: a type that matches no case does nothing
NoCaseFx(ws) == <<>>

Unhandled(ws, data) ==
  /\ UNCHANGED clientVars
  /\ readyState[ws] = "OPEN"
  /\ event' = [type |-> "unhandled", ws |-> ws, data |-> data]
  /\ LET parsed == JSONparse(data)
     IN  IF ~parsed.ok \/ TypeOf(parsed) = "TypeError"
         THEN fx' = CatchFx(ws)
         ELSE /\ TypeOf(parsed) \notin InboundTypes
              /\ fx' = NoCaseFx(ws)
  /\ UNCHANGED <<clients, offlineCount>>
  /\ UNCHANGED sessionVars
  /\ UNCHANGED dbVars

\* ---------------------------------------------------------- ws.on('close')
\* the effects of the branch userClients.length === 0, given the registry
\* reg after clients.delete and the transport states rs
\* the offline status stored but not broadcast
OfflineFx_silent(userId, reg, rs) ==
  <<[kind |-> "clients.delete", userId |-> userId],
    [kind |-> "updateUserStatus", userId |-> userId, status |-> "offline"]>>

OfflineFx(userId, reg, rs) ==
  <<[kind |-> "clients.delete", userId |-> userId],
    [kind |-> "updateUserStatus", userId |-> userId, status |-> "offline"]>>
  \o broadcast(reg, rs, friendIds(conversations, conversationMembers, userId),
               UserStatus(userId, "offline"))

\* the two guards left out: clients.get(currentUserId) || [] on any session
Close_eager(ws) ==
  /\ UNCHANGED clientVars
  /\ readyState[ws] \in {"OPEN", "CLOSING"}
  /\ readyState' = [readyState EXCEPT ![ws] = "CLOSED"]
  /\ event' = [type |-> "close", ws |-> ws]
  /\ LET userId == currentUserId[ws]
         reg == RegistryRemove(clients, userId, ws)
     IN  /\ clients' = reg
         /\ IF userId \notin DOMAIN reg
            THEN /\ userStatus' = updateUserStatus(userStatus, userId, "offline")
                 /\ offlineCount' = [u \in Users |->
                                       IF u = userId THEN offlineCount[u] + 1
                                                     ELSE offlineCount[u]]
                 /\ fx' = OfflineFx(userId, reg, readyState')
            ELSE /\ fx' = <<[kind |-> "clients.set", userId |-> userId,
                             sessions |-> reg[userId]]>>
                 /\ UNCHANGED <<userStatus, offlineCount>>
  /\ UNCHANGED <<authenticated, currentUserId, authLog>>
  /\ UNCHANGED <<conversations, conversationMembers, messages, now>>

\* 'close' handled again on a session whose close has been handled
Close_again(ws) ==
  /\ UNCHANGED clientVars
  /\ readyState[ws] \in {"OPEN", "CLOSING", "CLOSED"}
  /\ readyState' = [readyState EXCEPT ![ws] = "CLOSED"]
  /\ event' = [type |-> "close", ws |-> ws]
  /\ LET userId == currentUserId[ws]
     IN  IF userId # NoUser /\ userId \in DOMAIN clients
         THEN LET reg == RegistryRemove(clients, userId, ws)
              IN  /\ clients' = reg
                  /\ IF userId \notin DOMAIN reg
                     THEN /\ userStatus' = updateUserStatus(userStatus, userId, "offline")
                          /\ offlineCount' = [offlineCount EXCEPT ![userId] = @ + 1]
                          /\ fx' = OfflineFx(userId, reg, readyState')
                     ELSE /\ fx' = <<[kind |-> "clients.set", userId |-> userId,
                                      sessions |-> reg[userId]]>>
                          /\ UNCHANGED <<userStatus, offlineCount>>
         ELSE /\ fx' = <<>>
              /\ UNCHANGED <<clients, userStatus, offlineCount>>
  /\ UNCHANGED <<authenticated, currentUserId, authLog>>
  /\ UNCHANGED <<conversations, conversationMembers, messages, now>>

Close(ws) ==
  /\ UNCHANGED clientVars
  /\ readyState[ws] \in {"OPEN", "CLOSING"}
  /\ readyState' = [readyState EXCEPT ![ws] = "CLOSED"]
  /\ event' = [type |-> "close", ws |-> ws]
  /\ LET userId == currentUserId[ws]
     IN  IF userId # NoUser /\ userId \in DOMAIN clients
         THEN LET reg == RegistryRemove(clients, userId, ws)
              IN  /\ clients' = reg
                  /\ IF userId \notin DOMAIN reg
                     THEN /\ userStatus' = updateUserStatus(userStatus, userId, "offline")
                          /\ offlineCount' = [offlineCount EXCEPT ![userId] = @ + 1]
                          /\ fx' = OfflineFx(userId, reg, readyState')
                     ELSE /\ fx' = <<[kind |-> "clients.set", userId |-> userId,
                                      sessions |-> reg[userId]]>>
                          /\ UNCHANGED <<userStatus, offlineCount>>
         ELSE /\ fx' = <<>>
              /\ UNCHANGED <<clients, userStatus, offlineCount>>
  /\ UNCHANGED <<authenticated, currentUserId, authLog>>
  /\ UNCHANGED <<conversations, conversationMembers, messages, now>>

\* ------------------------------------------------------------- HTTP routes
\* POST /api/auth/login with the credentials of userId: the stored status
\* is set to online, whatever the registry holds
Login(userId) ==
  /\ UNCHANGED clientVars
  /\ event' = [type |-> "login", ws |-> 0, userId |-> userId]
  /\ fx' = <<>>
  /\ userStatus' = updateUserStatus(userStatus, userId, "online")
  /\ UNCHANGED <<clients, offlineCount, conversations, conversationMembers, messages, now>>
  /\ UNCHANGED sessionVars

\* database.addConversationMember: push unless the pair is already there
\* the record pushed without the look-up of an existing one
addConversationMember_push(cm, conversationId, userId) ==
  Append(cm, [conversationId |-> conversationId, userId |-> userId])

addConversationMember(cm, conversationId, userId) ==
  IF \E i \in 1..Len(cm) : cm[i].conversationId = conversationId /\ cm[i].userId = userId
  THEN cm
  ELSE Append(cm, [conversationId |-> conversationId, userId |-> userId])

RECURSIVE addConversationMembers(_, _, _)
addConversationMembers(cm, conversationId, userIds) ==
  IF userIds = <<>> THEN cm
  ELSE addConversationMembers(addConversationMember(cm, conversationId, Head(userIds)),
                              conversationId, Tail(userIds))

\* the two ids matched against the member records in their order
findDirectConversation_ordered(convs, cm, userId1, userId2) ==
  {i \in 1..Len(convs) :
     /\ ~convs[i].isGroup
     /\ getConversationMembers(cm, convs[i].id) = <<userId1, userId2>>}

\* database.findDirectConversation: the indices of the non-group
\* conversations with exactly two member records, userId1 and userId2 among them
findDirectConversation(convs, cm, userId1, userId2) ==
  {i \in 1..Len(convs) :
     /\ ~convs[i].isGroup
     /\ LET members == getConversationMembers(cm, convs[i].id)
        IN  /\ Len(members) = 2
            /\ userId1 \in Range(members)
            /\ userId2 \in Range(members)}

\* POST /api/conversations by userId with body {memberIds, isGroup}
CreateConversation(userId, memberIds, isGroup) ==
  LET allMembers == SetInsertAll(<<>>, <<userId>> \o memberIds)
      found == IF ~isGroup /\ Len(allMembers) = 2
               THEN findDirectConversation(conversations, conversationMembers,
                                           allMembers[1], allMembers[2])
               ELSE {}
      direct == found # {}
      id == Len(conversations) + 1
  IN  /\ UNCHANGED clientVars
      /\ event' = [type |-> "createConversation", ws |-> 0, userId |-> userId,
                   memberIds |-> memberIds, isGroup |-> isGroup]
      /\ IF direct
         THEN /\ fx' = <<[kind |-> "res.json", conversationId |->
                           conversations[CHOOSE i \in found : \A j \in found : i <= j].id]>>
              /\ UNCHANGED <<conversations, conversationMembers, now>>
         ELSE /\ Len(conversations) < MaxConvs
              /\ fx' = <<[kind |-> "res.json", conversationId |-> id]>>
              /\ now' = now + 1
              /\ conversations' = Append(conversations,
                                         [id |-> id, isGroup |-> isGroup, updatedAt |-> now + 1])
              /\ conversationMembers' =
                   addConversationMembers(conversationMembers, id, allMembers)
      /\ UNCHANGED <<clients, offlineCount, userStatus, messages>>
      /\ UNCHANGED sessionVars

\* POST /api/conversations/:id/members with body {userId}
AddMember(conversationId, userId) ==
  /\ UNCHANGED clientVars
  /\ event' = [type |-> "addMember", ws |-> 0, conversationId |-> conversationId,
               userId |-> userId]
  /\ fx' = <<>>
  /\ conversationMembers' = addConversationMember(conversationMembers, conversationId, userId)
  /\ UNCHANGED <<clients, offlineCount, userStatus, conversations, messages, now>>
  /\ UNCHANGED sessionVars

\* ------------------------------------------- client: ws.onmessage new_message
\* The messages the server may deliver, each as often as it likes: message k
\* was created at time k, in conversation 1 when k is odd and 2 when even.
DeliveredMessages ==
  {[id |-> k, conversationId |-> 2 - (k % 2), createdAt |-> k] : k \in 1..MaxDelivered}

\* The response of GET /api/conversations: two conversations, newest first,
\* neither with a last message.
FetchedConversations ==
  <<[id |-> 2, updatedAt |-> 2, lastMessage |-> NoMessage],
    [id |-> 1, updatedAt |-> 0, lastMessage |-> NoMessage]>>

\* a.lastMessage?.createdAt || a.updatedAt
activityTime(conv) ==
  IF conv.lastMessage # NoMessage THEN conv.lastMessage.createdAt ELSE conv.updatedAt

RECURSIVE insertByActivity(_, _)
insertByActivity(sorted, c) ==
  IF sorted = <<>> THEN <<c>>
  ELSE IF activityTime(Head(sorted)) >= activityTime(c)
       THEN <<Head(sorted)>> \o insertByActivity(Tail(sorted), c)
       ELSE <<c>> \o sorted

RECURSIVE sortByActivity(_, _)
\* Array.prototype.sort with the comparator bTime - aTime: latest activity
\* first, equal times in their former order
sortByActivity(acc, cs) ==
  IF cs = <<>> THEN acc ELSE sortByActivity(insertByActivity(acc, Head(cs)), Tail(cs))

\* state.messages[message.conversationId] || []
convMessagesOf(msgs, conversationId) ==
  IF conversationId \in DOMAIN msgs THEN msgs[conversationId] ELSE <<>>

\* the look-up of the message id left out
isDuplicate_never(convMessages, message) == FALSE

\* convMessages.some(m => m.id === message.id)
isDuplicate(convMessages, message) ==
  \E i \in 1..Len(convMessages) : convMessages[i].id = message.id

\* fetchConversations, called on auth_success: the response arrives
ConversationsFetched ==
  /\ storeConversations = <<>>
  /\ event' = [type |-> "client.conversations", ws |-> 0]
  /\ storeConversations' = FetchedConversations
  /\ UNCHANGED <<storeMessages, typingUsers, typingTimers, socketState, storeWs,
                 isConnected, authToken, reconnectTimers>>
  /\ UNCHANGED serverVars

\* ws.onmessage, case 'new_message'
ReceiveNewMessage(message) ==
  /\ event' = [type |-> "client.new_message", ws |-> 0, message |-> message]
  /\ LET convMessages == convMessagesOf(storeMessages, message.conversationId)
     IN  IF isDuplicate(convMessages, message)
         THEN UNCHANGED <<storeMessages, storeConversations>>
         ELSE LET updatedConversations ==
                    [i \in 1..Len(storeConversations) |->
                       IF storeConversations[i].id = message.conversationId
                       THEN [storeConversations[i] EXCEPT !.lastMessage = message]
                       ELSE storeConversations[i]]
              IN  /\ storeMessages' =
                       [c \in DOMAIN storeMessages \cup {message.conversationId} |->
                          IF c = message.conversationId
                          THEN Append(convMessages, message)
                          ELSE storeMessages[c]]
                  /\ storeConversations' = sortByActivity(<<>>, updatedConversations)
  /\ UNCHANGED <<typingUsers, typingTimers, socketState, storeWs, isConnected,
                 authToken, reconnectTimers>>
  /\ UNCHANGED serverVars

\* ------------------------------------------------ client: ws.onmessage typing
\* the conversations of the client, those of FetchedConversations
ClientConvIds == {FetchedConversations[i].id : i \in 1..Len(FetchedConversations)}

\* the look-up of the pair left out
typingExists_never(list, conversationId, userId) == FALSE

\* state.typingUsers.some(t => t.conversationId === conversationId && t.userId === userId)
typingExists(list, conversationId, userId) ==
  \E i \in 1..Len(list) :
    list[i].conversationId = conversationId /\ list[i].userId = userId

\* state.typingUsers.filter(t => !(same conversationId and userId))
withoutTyping(list, conversationId, userId) ==
  SelectSeq(list, LAMBDA t : ~(t.conversationId = conversationId /\ t.userId = userId))

\* ws.onmessage, case 'typing': the store update, then setTimeout(..., 5000)
ReceiveTyping(conversationId, userId, isTyping) ==
  /\ BagCardinality(typingTimers) < MaxTimers
  /\ event' = [type |-> "client.typing", ws |-> 0, conversationId |-> conversationId,
               userId |-> userId, isTyping |-> isTyping]
  /\ typingUsers' =
       IF isTyping
       THEN IF ~typingExists(typingUsers, conversationId, userId)
            THEN Append(typingUsers, [conversationId |-> conversationId,
                                      userId |-> userId, userName |-> userId])
            ELSE typingUsers
       ELSE withoutTyping(typingUsers, conversationId, userId)
  /\ typingTimers' = typingTimers (+) SetToBag({<<conversationId, userId>>})
  /\ UNCHANGED <<storeConversations, storeMessages, socketState, storeWs,
                 isConnected, authToken, reconnectTimers>>
  /\ UNCHANGED serverVars

\* the callback of a setTimeout(..., 5000) started by case 'typing' runs
TypingTimerFires(conversationId, userId) ==
  /\ BagIn(<<conversationId, userId>>, typingTimers)
  /\ event' = [type |-> "client.typingTimer", ws |-> 0,
               conversationId |-> conversationId, userId |-> userId]
  /\ typingUsers' = withoutTyping(typingUsers, conversationId, userId)
  /\ typingTimers' = typingTimers (-) SetToBag({<<conversationId, userId>>})
  /\ UNCHANGED <<storeConversations, storeMessages, socketState, storeWs,
                 isConnected, authToken, reconnectTimers>>
  /\ UNCHANGED serverVars

\* ------------------------------------------ client: connect and disconnect
\* the socket part of the client state, as the store actions read and write it
SocketStore == [socketState |-> socketState, ws |-> storeWs, isConnected |-> isConnected]

\* WebSocket.close(): a socket that is connecting or open starts closing
wsClose(ss, k) ==
  IF ss[k] \in {"CONNECTING", "OPEN"} THEN [ss EXCEPT ![k] = "CLOSING"] ELSE ss

\* the socket that new WebSocket(WS_URL) makes
newSocket(ss) == CHOOSE k \in ClientSockets :
                   ss[k] = "NONE" /\ \A j \in ClientSockets : ss[j] = "NONE" => k <= j

\* connect(): nothing without a token; else a new socket, stored in ws
connect(st, token) ==
  IF ~token THEN st
  ELSE [st EXCEPT !.socketState[newSocket(st.socketState)] = "CONNECTING",
                  !.ws = newSocket(st.socketState)]

\* disconnect(): if (ws) { ws.close(); set({ ws: null, isConnected: false }) }
disconnect(st) ==
  IF st.ws # NoSocket
  THEN [socketState |-> wsClose(st.socketState, st.ws), ws |-> NoSocket,
        isConnected |-> FALSE]
  ELSE st

\* the socket part of the client state becomes st
SetSocketStore(st) ==
  /\ socketState' = st.socketState
  /\ storeWs' = st.ws
  /\ isConnected' = st.isConnected

\* authStore login succeeds: user and token are set and the effect of App
\* runs again, its cleanup first (disconnect), then connect
ClientLogin ==
  /\ ~authToken
  /\ \E k \in ClientSockets : socketState[k] = "NONE"
  /\ event' = [type |-> "client.login", ws |-> 0]
  /\ authToken' = TRUE
  /\ SetSocketStore(connect(disconnect(SocketStore), TRUE))
  /\ UNCHANGED <<storeConversations, storeMessages, typingUsers, typingTimers,
                 reconnectTimers>>
  /\ UNCHANGED serverVars

\* authStore logout: user and token are cleared and the effect of App runs
\* again, its cleanup first (disconnect), then its else branch (disconnect)
ClientLogout ==
  /\ authToken
  /\ event' = [type |-> "client.logout", ws |-> 0]
  /\ authToken' = FALSE
  /\ SetSocketStore(disconnect(disconnect(SocketStore)))
  /\ UNCHANGED <<storeConversations, storeMessages, typingUsers, typingTimers,
                 reconnectTimers>>
  /\ UNCHANGED serverVars

\* the connection of socket k is established; ws.onopen sends the auth frame
SocketOpens(k) ==
  /\ socketState[k] = "CONNECTING"
  /\ event' = [type |-> "client.open", ws |-> 0, socket |-> k]
  /\ socketState' = [socketState EXCEPT ![k] = "OPEN"]
  /\ UNCHANGED <<storeConversations, storeMessages, typingUsers, typingTimers,
                 storeWs, isConnected, authToken, reconnectTimers>>
  /\ UNCHANGED serverVars

\* ws.onmessage of socket k, case 'auth_success'
ReceiveAuthSuccess(k) ==
  /\ socketState[k] = "OPEN"
  /\ event' = [type |-> "client.auth_success", ws |-> 0, socket |-> k]
  /\ isConnected' = TRUE
  /\ UNCHANGED <<storeConversations, storeMessages, typingUsers, typingTimers,
                 socketState, storeWs, authToken, reconnectTimers>>
  /\ UNCHANGED serverVars

\* the close event of socket k, after close() or a loss of the connection:
\* ws.onclose clears the store and starts the 3 s reconnect timer
SocketCloses(k) ==
  /\ socketState[k] \in {"CONNECTING", "OPEN", "CLOSING"}
  /\ event' = [type |-> "client.close", ws |-> 0, socket |-> k]
  /\ socketState' = [socketState EXCEPT ![k] = "CLOSED"]
  /\ isConnected' = FALSE
  /\ storeWs' = NoSocket
  /\ reconnectTimers' = reconnectTimers + 1
  /\ UNCHANGED <<storeConversations, storeMessages, typingUsers, typingTimers,
                 authToken>>
  /\ UNCHANGED serverVars

\* the callback of a reconnect timer runs: connect() if the token is set
ReconnectTimerFires ==
  /\ reconnectTimers > 0
  /\ authToken => \E k \in ClientSockets : socketState[k] = "NONE"
  /\ event' = [type |-> "client.reconnectTimer", ws |-> 0]
  /\ reconnectTimers' = reconnectTimers - 1
  /\ SetSocketStore(connect(SocketStore, authToken))
  /\ UNCHANGED <<storeConversations, storeMessages, typingUsers, typingTimers,
                 authToken>>
  /\ UNCHANGED serverVars

\* -------------------------------------------------------------------- Next
ExistingConvIds == {conversations[i].id : i \in 1..Len(conversations)}
\* the message frames: well-formed ones, those that miss conversationId or
\* content, and well-formed ones on which sendMessage throws
MessageFrames ==
  [conversationId : ExistingConvIds, content : Contents, thrown : Throws]
  \cup [conversationId : {NoConversation}, content : Contents, thrown : {"none"}]
  \cup [conversationId : ExistingConvIds, content : {NoContent}, thrown : {"none"}]

RECURSIVE SumLen(_, _)
SumLen(f, S) ==
  IF S = {} THEN 0
  ELSE LET x == CHOOSE y \in S : TRUE IN Len(f[x]) + SumLen(f, S \ {x})
\* the successful auth events handled so far
AuthsHandled == SumLen(authLog, Sessions)

\* Every event of the WebSocket server.  A run handles at most MaxAuth
\* successful auth events and persists at most MaxMessages messages.
Next ==
  \/ \E ws \in Sessions : Connection(ws)
  \/ \E ws \in Sessions : BeginClose(ws)
  \/ \E ws \in Sessions : Close(ws)
  \/ \E ws \in Sessions, token \in Tokens : Auth(ws, token) /\ AuthsHandled' <= MaxAuth
  \/ \E ws \in Sessions, c \in ExistingConvIds, content \in Contents :
       Message(ws, c, content, "none", NoUser) /\ Len(messages') <= MaxMessages
  \/ \E ws \in Sessions, c \in ExistingConvIds, isTyping \in BOOLEAN : Typing(ws, c, isTyping, NoUser)
  \/ \E ws \in Sessions : Ping(ws)

Spec == Init /\ [][Next]_vars

\* The frames that persist nothing, those that miss a required field or
\* match no case included.
NextRouter ==
  \/ \E ws \in Sessions : Connection(ws)
  \/ \E ws \in Sessions : Close(ws)
  \/ \E ws \in Sessions, token \in Tokens \cup {NoToken} :
       Auth(ws, token) /\ AuthsHandled' <= MaxAuth
  \/ \E ws \in Sessions, c \in ExistingConvIds \cup {NoConversation}, isTyping \in BOOLEAN :
       Typing(ws, c, isTyping, NoUser)
  \/ \E ws \in Sessions : Ping(ws)
  \/ \E ws \in Sessions, data \in RawFrames : Unhandled(ws, data)

SpecRouter == Init /\ [][NextRouter]_vars

\* The message frames of connections that authenticate once, as the client
\* does when its socket opens; at most MaxMessages messages are stored.
NextSend ==
  \/ \E ws \in Sessions : Connection(ws)
  \/ \E ws \in Sessions : Close(ws)
  \/ \E ws \in Sessions, userId \in Users :
       authLog[ws] = <<>> /\ Auth(ws, [signed |-> TRUE, userId |-> userId])
  \/ \E ws \in Sessions, m \in MessageFrames :
       Message(ws, m.conversationId, m.content, m.thrown, NoUser) /\ Len(messages') <= MaxMessages

SpecSend == Init /\ [][NextSend]_vars

\* The server started on a database in which user 1 has created a group
\* conversation and nobody has been added to it yet.
InitMembers ==
  /\ readyState = [s \in Sessions |-> "NONE"]
  /\ authenticated = [s \in Sessions |-> FALSE]
  /\ currentUserId = [s \in Sessions |-> NoUser]
  /\ clients = <<>>
  /\ authLog = [s \in Sessions |-> <<>>]
  /\ userStatus = [u \in Users |-> "online"]
  /\ conversations = <<[id |-> 1, isGroup |-> TRUE, updatedAt |-> 0]>>
  /\ conversationMembers = <<[conversationId |-> 1, userId |-> 1]>>
  /\ messages = <<>>
  /\ now = 0
  /\ offlineCount = [u \in Users |-> 0]
  /\ event = [type |-> "listen", ws |-> 0]
  /\ fx = <<>>
  /\ ClientInit

\* Well-formed messages of connections that authenticate once, while members
\* are added to the conversation.
NextMembers ==
  \/ \E ws \in Sessions : Connection(ws)
  \/ \E ws \in Sessions : BeginClose(ws)
  \/ \E ws \in Sessions : Close(ws)
  \/ \E c \in ExistingConvIds, userId \in Users : AddMember(c, userId)
  \/ \E ws \in Sessions, userId \in Users :
       authLog[ws] = <<>> /\ Auth(ws, [signed |-> TRUE, userId |-> userId])
  \/ \E ws \in Sessions, c \in ExistingConvIds, content \in Contents :
       Message(ws, c, content, "none", NoUser) /\ Len(messages') <= MaxMessages

SpecMembers == InitMembers /\ [][NextMembers]_vars

\* The connection, auth and close events alone, with up to MaxReauth
\* successful auth events in a run.
NextPresence ==
  \/ \E userId \in Users : Login(userId)
  \/ \E ws \in Sessions : Connection(ws)
  \/ \E ws \in Sessions : BeginClose(ws)
  \/ \E ws \in Sessions : Error(ws)
  \/ \E ws \in Sessions : Close(ws)
  \/ \E ws \in Sessions, token \in Tokens : Auth(ws, token) /\ AuthsHandled' <= MaxReauth

SpecPresence == Init /\ [][NextPresence]_vars

\* The server started on a database that holds the registered users and no
\* conversation yet.
InitStore ==
  /\ readyState = [s \in Sessions |-> "NONE"]
  /\ authenticated = [s \in Sessions |-> FALSE]
  /\ currentUserId = [s \in Sessions |-> NoUser]
  /\ clients = <<>>
  /\ authLog = [s \in Sessions |-> <<>>]
  /\ userStatus = [u \in Users |-> "online"]
  /\ conversations = <<>>
  /\ conversationMembers = <<>>
  /\ messages = <<>>
  /\ now = 0
  /\ offlineCount = [u \in Users |-> 0]
  /\ event = [type |-> "listen", ws |-> 0]
  /\ fx = <<>>
  /\ ClientInit

\* The two HTTP routes that write the conversation and membership tables;
\* a run writes at most MaxMemberRecords membership records.
NextStore ==
  \/ \E userId \in Users, memberIds \in MemberIdLists, isGroup \in BOOLEAN :
       /\ CreateConversation(userId, memberIds, isGroup)
       /\ Len(conversationMembers') <= MaxMemberRecords
  \/ \E c \in ExistingConvIds, userId \in Users :
       AddMember(c, userId) /\ Len(conversationMembers') <= MaxMemberRecords

SpecStore == InitStore /\ [][NextStore]_vars

\* Message and typing frames that carry a user id of their own, or none,
\* from connections that authenticate with valid tokens.
NextIdentity ==
  \/ \E ws \in Sessions : Connection(ws)
  \/ \E ws \in Sessions : Close(ws)
  \/ \E ws \in Sessions, userId \in Users :
       Auth(ws, [signed |-> TRUE, userId |-> userId]) /\ AuthsHandled' <= MaxAuth
  \/ \E ws \in Sessions, c \in ExistingConvIds, content \in Contents,
        payloadUserId \in Users \cup {NoUser} :
       Message(ws, c, content, "none", payloadUserId) /\ Len(messages') <= MaxMessages
  \/ \E ws \in Sessions, c \in ExistingConvIds, isTyping \in BOOLEAN,
        payloadUserId \in Users \cup {NoUser} :
       Typing(ws, c, isTyping, payloadUserId)

SpecIdentity == Init /\ [][NextIdentity]_vars

\* The message events of the client: the conversation list arrives once and
\* the messages of DeliveredMessages arrive in any order, any number of times.
NextClientMessages ==
  \/ ConversationsFetched
  \/ \E message \in DeliveredMessages : ReceiveNewMessage(message)

SpecClientMessages == Init /\ [][NextClientMessages]_vars

\* The typing events of the client and the expiry of their timers, with at
\* most MaxTimers timers pending.
NextClientTyping ==
  \/ \E c \in ClientConvIds, userId \in Users, isTyping \in BOOLEAN :
       ReceiveTyping(c, userId, isTyping)
  \/ \E c \in ClientConvIds, userId \in Users : TypingTimerFires(c, userId)

SpecClientTyping == Init /\ [][NextClientTyping]_vars

\* The life of the client's sockets: logins and logouts, the socket events
\* and the reconnect timers, with at most MaxSockets sockets made.
NextClientSocket ==
  \/ ClientLogin
  \/ ClientLogout
  \/ \E k \in ClientSockets : SocketOpens(k)
  \/ \E k \in ClientSockets : ReceiveAuthSuccess(k)
  \/ \E k \in ClientSockets : SocketCloses(k)
  \/ ReconnectTimerFires

SpecClientSocket == Init /\ [][NextClientSocket]_vars

\* ================================================================== claims
Live(s) == readyState[s] \in {"OPEN", "CLOSING"}
InConversation(c, u) ==
  \E k \in 1..Len(conversationMembers) :
    conversationMembers[k].conversationId = c /\ conversationMembers[k].userId = u
\* the users sharing an existing conversation with u, u excluded
Audience(u) ==
  {m \in Users \ {u} :
     \E i \in 1..Len(conversations) :
       InConversation(conversations[i].id, u) /\ InConversation(conversations[i].id, m)}
AuthenticatedAs(u) == {s \in Sessions : u \in Range(authLog[s])}
AuthSucceeded == event.type = "auth" /\ event.token.signed
BroadcastsOf(f) == SelectSeq(f, LAMBDA e : e.kind = "broadcast")
OfflineBroadcastFor(f, u) ==
  \E i \in 1..Len(f) : f[i].kind = "broadcast" /\ f[i].payload = UserStatus(u, "offline")

\* C1: a user id is a key of the clients registry if and only if that user
\* has at least one live (not closed) authenticated session, and no key maps
\* to an empty session list.
C1_KeyIffLiveSession ==
  /\ \A u \in Users :
       u \in DOMAIN clients <=>
         \E s \in Sessions : Live(s) /\ authenticated[s] /\ currentUserId[s] = u
  /\ \A u \in DOMAIN clients : clients[u] # <<>>

\* C2: once the close handler of a session has run, that session handle
\* appears in no user's session list.
C2_ClosedSessionUnregistered ==
  \A s \in Sessions :
    readyState[s] = "CLOSED" => \A u \in DOMAIN clients : s \notin Range(clients[u])

\* C3: no user's session list contains the same session handle more than once.
C3_NoDuplicateHandle ==
  \A u \in DOMAIN clients :
    \A i, j \in 1..Len(clients[u]) : i # j => clients[u][i] # clients[u][j]

\* C4: a session is never registered under two different user ids, and every
\* session listed under key u has u as its bound identity.
C4_OneIdentityPerSession ==
  \A s \in Sessions :
    /\ \A u, v \in DOMAIN clients :
         (s \in Range(clients[u]) /\ s \in Range(clients[v])) => u = v
    /\ \A u \in DOMAIN clients : s \in Range(clients[u]) => currentUserId[s] = u

\* C5: when u has authenticated on two different sessions, u stays a key of
\* the registry while one of them is live, the close of one of them while
\* another is live emits no offline event, and once both have closed u is not
\* a key and an offline user_status event for u has been emitted.
C5_OfflineOnLastClose ==
  \A u \in Users :
    Cardinality(AuthenticatedAs(u)) >= 2 =>
      /\ (\E s \in AuthenticatedAs(u) : Live(s)) =>
           /\ u \in DOMAIN clients
           /\ (event.type = "close" /\ event.ws \in AuthenticatedAs(u)) =>
                ~OfflineBroadcastFor(fx, u)
      /\ (\A s \in AuthenticatedAs(u) : readyState[s] = "CLOSED") =>
           /\ u \notin DOMAIN clients
           /\ offlineCount[u] >= 1

\* C6: every successful auth event makes exactly one broadcast, of
\* user_status online for the resolved user, addressed to exactly that user's
\* audience, and every open registered session of an audience member is sent
\* it, whether or not other sessions of the user are already registered.
C6_OnlinePerAuth ==
  AuthSucceeded =>
    LET u == event.token.userId
        bs == BroadcastsOf(fx)
    IN  /\ Len(bs) = 1
        /\ bs[1].payload = UserStatus(u, "online")
        /\ Range(bs[1].userIds) = Audience(u)
        /\ Len(bs[1].userIds) = Cardinality(Audience(u))
        /\ \A m \in Audience(u) \cap DOMAIN clients :
             \A s \in Range(clients[m]) :
               readyState[s] = "OPEN" => Send(s, UserStatus(u, "online")) \in Range(fx)

\* a successful auth of a user who already had another session registered,
\* with a non-empty audience
C6_Witness ==
  /\ AuthSucceeded
  /\ event.token.userId \in DOMAIN clients
  /\ \E s \in Range(clients[event.token.userId]) : s # event.ws /\ Live(s)
  /\ Audience(event.token.userId) # {}
  /\ Len(BroadcastsOf(fx)) = 1

\* C7: a message event on a session that has not successfully authenticated
\* produces only the error response to that session: nothing else is sent,
\* no message is persisted, and the registry and the session state are unchanged.
C7_MessageBeforeAuth ==
  [][(event'.type = "message" /\ authLog[event'.ws] = <<>>) =>
       /\ fx' = <<Send(event'.ws, NotAuthenticated)>>
       /\ messages' = messages
       /\ conversations' = conversations
       /\ clients' = clients
       /\ authenticated' = authenticated
       /\ currentUserId' = currentUserId
       /\ readyState' = readyState]_vars

\* a message event answered with the error while other sessions are registered
C7_Witness ==
  /\ event.type = "message"
  /\ authLog[event.ws] = <<>>
  /\ fx = <<Send(event.ws, NotAuthenticated)>>
  /\ InConversation(event.conversationId, 1)
  /\ 1 \in DOMAIN clients

\* C8: a typing event on an unauthenticated session yields a 'not
\* authenticated' error response to that session only.
C8_TypingBeforeAuth ==
  (event.type = "typing" /\ authLog[event.ws] = <<>>) =>
    fx = <<Send(event.ws, NotAuthenticated)>>

\* C9: on an auth event with a valid token the session is registered under
\* the resolved user id and Authenticated, then auth_success is sent to that
\* session alone, and only afterwards the user_status online event is broadcast.
RegisterAt == {i \in 1..Len(fx) : fx[i].kind = "clients.set"}
AuthSuccessAt ==
  {i \in 1..Len(fx) : fx[i].kind = "send" /\ fx[i].payload.type = "auth_success"}
UserStatusAt ==
  {i \in 1..Len(fx) : fx[i].kind \in {"send", "broadcast"} /\ fx[i].payload.type = "user_status"}

C9_AuthOrder ==
  AuthSucceeded =>
    LET u == event.token.userId
        ws == event.ws
    IN  /\ authenticated[ws]
        /\ currentUserId[ws] = u
        /\ u \in DOMAIN clients
        /\ ws \in Range(clients[u])
        /\ UserStatusAt # {}
        /\ \E r \in RegisterAt, a \in AuthSuccessAt :
             /\ RegisterAt = {r}
             /\ AuthSuccessAt = {a}
             /\ fx[r].userId = u
             /\ ws \in Range(fx[r].sessions)
             /\ fx[a].to = ws
             /\ fx[a].payload.user.id = u
             /\ r < a
             /\ \A i \in UserStatusAt : a < i /\ fx[i].payload = UserStatus(u, "online")

\* a successful auth whose online event is delivered to another session
C9_Witness ==
  /\ AuthSucceeded
  /\ \E i \in UserStatusAt : fx[i].kind = "send" /\ fx[i].to # event.ws

\* C10: on an auth event whose token is invalid, auth_error is sent to that
\* session alone, the session's authentication state is as before (an
\* Unauthenticated session remains Unauthenticated), the registry is
\* unchanged, and no user_status event is emitted.
C10_AuthFailure ==
  [][(event'.type = "auth" /\ ~event'.token.signed) =>
       /\ fx' = <<Send(event'.ws, AuthError)>>
       /\ authenticated' = authenticated
       /\ currentUserId' = currentUserId
       /\ authLog' = authLog
       /\ clients' = clients
       /\ userStatus' = userStatus]_vars

\* a failed auth on a session that is Unauthenticated and in no session list
C10_Witness ==
  /\ event.type = "auth"
  /\ ~event.token.signed
  /\ ~authenticated[event.ws]
  /\ fx = <<Send(event.ws, AuthError)>>
  /\ \A u \in DOMAIN clients : event.ws \notin Range(clients[u])
  /\ clients # <<>>

\* C11: a refused auth is not fatal: the connection stays open, and a valid
\* auth that follows refused ones on the same session authenticates the
\* session and registers it exactly as a first auth does: the session is
\* appended to the user's list, the other lists are untouched, the stored
\* status is online, and auth_success, never auth_error, is sent to it.
C11_RetryAfterFailure ==
  [][/\ (event'.type = "auth" /\ ~event'.token.signed) =>
          /\ readyState[event'.ws] = "OPEN"
          /\ readyState' = readyState
     /\ (event'.type = "auth" /\ event'.token.signed /\ event'.retry) =>
          LET ws == event'.ws
              u == event'.token.userId
              before == IF u \in DOMAIN clients THEN clients[u] ELSE <<>>
          IN  /\ readyState' = readyState
              /\ authenticated'[ws]
              /\ currentUserId'[ws] = u
              /\ DOMAIN clients' = DOMAIN clients \cup {u}
              /\ clients'[u] = Append(before, ws)
              /\ \A v \in DOMAIN clients \ {u} : clients'[v] = clients[v]
              /\ userStatus'[u] = "online"
              /\ \E i \in 1..Len(fx') :
                   /\ fx'[i].kind = "send"
                   /\ fx'[i].to = ws
                   /\ fx'[i].payload.type = "auth_success"
                   /\ fx'[i].payload.user.id = u
              /\ \A i \in 1..Len(fx') :
                   fx'[i].kind = "send" => fx'[i].payload.type # "auth_error"]_vars

\* a session whose first successful auth came right after a refused one
C11_Witness ==
  /\ event.type = "auth"
  /\ event.token.signed
  /\ event.retry
  /\ authLog[event.ws] = <<event.token.userId>>
  /\ readyState[event.ws] = "OPEN"
  /\ authenticated[event.ws]
  /\ event.ws \in Range(clients[event.token.userId])

\* the sends of payload to session s that follow position i of f
SendsAfter(f, i, s, payload) == {j \in (i + 1)..Len(f) : f[j] = Send(s, payload)}

\* C12: a broadcast addressed to the single user u sends the event exactly
\* once to every open session that is bound to u: none is missed and none
\* is sent it twice.
C12_OncePerSession ==
  \A i \in 1..Len(fx) :
    (fx[i].kind = "broadcast" /\ Len(fx[i].userIds) = 1) =>
      \A s \in Sessions :
        (readyState[s] = "OPEN" /\ authenticated[s]
           /\ currentUserId[s] = fx[i].userIds[1]) =>
          Cardinality(SendsAfter(fx, i, s, fx[i].payload)) = 1

\* the sessions registered under a recipient of the broadcast at position i of f
RegisteredRecipients(f, i, reg) ==
  {s \in Sessions : \E u \in Range(f[i].userIds) \cap DOMAIN reg : s \in Range(reg[u])}

\* every broadcast of f, over registry reg and transport states rs, is
\* followed by sends of its payload only, to open sessions only, and every
\* open registered session of a recipient is among them
SkipsNonOpen(f, reg, rs) ==
  \A i \in 1..Len(f) :
    f[i].kind = "broadcast" =>
      /\ \A j \in (i + 1)..Len(f) :
           /\ f[j].kind = "send"
           /\ f[j].payload = f[i].payload
           /\ rs[f[j].to] = "OPEN"
      /\ \A s \in RegisteredRecipients(f, i, reg) :
           IF rs[s] = "OPEN" THEN SendsAfter(f, i, s, f[i].payload) # {}
                             ELSE SendsAfter(f, i, s, f[i].payload) = {}

\* C13: a broadcast sends to a registered session only if its transport is
\* open; a registered session that is not open is skipped without an error,
\* without a retry and without a change of the registry or of its state,
\* and the open sessions of the recipients are still sent the event.
C13_NonOpenSkipped ==
  [][/\ SkipsNonOpen(fx', clients', readyState')
     /\ event'.type \in {"message", "typing"} =>
          /\ clients' = clients
          /\ readyState' = readyState]_vars

\* a broadcast that skips a registered session which is not open and is
\* sent to an open one
C13_Witness ==
  \E i \in 1..Len(fx) :
    /\ fx[i].kind = "broadcast"
    /\ \E s, t \in RegisteredRecipients(fx, i, clients) :
         /\ readyState[s] # "OPEN"
         /\ SendsAfter(fx, i, s, fx[i].payload) = {}
         /\ readyState[t] = "OPEN"
         /\ SendsAfter(fx, i, t, fx[i].payload) # {}

\* the message event handled last came from an authenticated session and
\* sendMessage returned its record
MessageSent ==
  /\ event.type = "message"
  /\ authenticated[event.ws]
  /\ currentUserId[event.ws] # NoUser
  /\ event.thrown = "none"

\* C14: when a message event of an authenticated session is persisted, the
\* new_message event carrying the persisted record is sent to every open
\* registered session of every user who is a member of the conversation at
\* that moment, the sender's own sessions included; every send of the
\* handler carries that one payload and goes to a session of a member.
C14_NewMessageFanout ==
  MessageSent =>
    LET msg == messages[Len(messages)]
        c == event.conversationId
    IN  /\ msg.conversationId = c
        /\ msg.senderId = currentUserId[event.ws]
        /\ msg.content = event.content
        /\ \A m \in DOMAIN clients :
             InConversation(c, m) =>
               \A s \in Range(clients[m]) :
                 readyState[s] = "OPEN" => Send(s, NewMessage(msg)) \in Range(fx)
        /\ \A i \in 1..Len(fx) :
             fx[i].kind = "send" =>
               /\ fx[i].payload = NewMessage(msg)
               /\ \E m \in DOMAIN clients :
                    InConversation(c, m) /\ fx[i].to \in Range(clients[m])

\* a message sent to the sender's session and to the session of a member
\* who was added to the conversation after the server started
C14_Witness ==
  /\ MessageSent
  /\ InConversation(event.conversationId, currentUserId[event.ws])
  /\ \E k \in 2..Len(conversationMembers), s \in Sessions :
       /\ conversationMembers[k].conversationId = event.conversationId
       /\ s # event.ws
       /\ currentUserId[s] = conversationMembers[k].userId
       /\ Send(s, NewMessage(messages[Len(messages)])) \in Range(fx)
       /\ Send(event.ws, NewMessage(messages[Len(messages)])) \in Range(fx)

\* C15: when a message event of an authenticated session reaches sendMessage
\* and sendMessage returns no record, the handler sends nothing: no
\* new_message to anyone and no error or other response to the sender; the
\* session states and the registry are as before.
C15_SilentDrop ==
  [][(/\ event'.type = "message"
      /\ authenticated[event'.ws]
      /\ currentUserId[event'.ws] # NoUser
      /\ event'.thrown # "none") =>
       /\ \A i \in 1..Len(fx') : fx'[i].kind \notin {"send", "broadcast"}
       /\ clients' = clients
       /\ authenticated' = authenticated
       /\ currentUserId' = currentUserId
       /\ readyState' = readyState]_vars

\* sendMessage returned no record while the sender's session and an open
\* session of another member of the conversation were registered
C15_Witness ==
  /\ event.type = "message"
  /\ event.thrown # "none"
  /\ authenticated[event.ws]
  /\ currentUserId[event.ws] \in DOMAIN clients
  /\ event.ws \in Range(clients[currentUserId[event.ws]])
  /\ \E m \in DOMAIN clients \ {currentUserId[event.ws]} :
       /\ InConversation(event.conversationId, m)
       /\ \E s \in Range(clients[m]) : readyState[s] = "OPEN"
  /\ \A i \in 1..Len(fx) : fx[i].kind \notin {"send", "broadcast"}

\* the typing event handled last came from an authenticated session
TypingSent ==
  /\ event.type = "typing"
  /\ authenticated[event.ws]
  /\ currentUserId[event.ws] # NoUser

\* C16: every typing event of an authenticated session makes exactly one
\* broadcast, of the typing event naming the sender, addressed to the members
\* of the conversation other than the sender; every open registered session
\* of those members is sent it, no session registered under the sender's
\* user id is sent it, and nothing is persisted.
C16_TypingFanout ==
  [][TypingSent' =>
       LET u == currentUserId'[event'.ws]
           c == event'.conversationId
           bs == BroadcastsOf(fx')
       IN  /\ Len(bs) = 1
           /\ bs[1].payload.type = "typing"
           /\ bs[1].payload.userId = u
           /\ bs[1].payload.conversationId = c
           /\ bs[1].payload.isTyping = event'.isTyping
           /\ Range(bs[1].userIds) = {m \in Users \ {u} : InConversation(c, m)}
           /\ \A m \in Range(bs[1].userIds) \cap DOMAIN clients' :
                \A s \in Range(clients'[m]) :
                  readyState'[s] = "OPEN" => Send(s, bs[1].payload) \in Range(fx')
           /\ u \in DOMAIN clients' =>
                \A s \in Range(clients'[u]), i \in 1..Len(fx') :
                  fx'[i].kind = "send" => fx'[i].to # s
           /\ UNCHANGED dbVars]_vars

\* C17: a ping event is answered with pong, sent to the sending session and
\* to no other, whether the session is Unauthenticated or Authenticated, and
\* it changes neither the state of any session nor the registry.
C17_PingPong ==
  [][event'.type = "ping" =>
       /\ fx' = <<Send(event'.ws, Pong)>>
       /\ authenticated' = authenticated
       /\ currentUserId' = currentUserId
       /\ readyState' = readyState
       /\ clients' = clients]_vars

\* a ping answered on an Unauthenticated session while another session is
\* Authenticated and registered
C17_Witness ==
  /\ event.type = "ping"
  /\ ~authenticated[event.ws]
  /\ fx = <<Send(event.ws, Pong)>>
  /\ \E s \in Sessions \ {event.ws} :
       /\ authenticated[s]
       /\ readyState[s] = "OPEN"
       /\ currentUserId[s] \in DOMAIN clients
       /\ s \in Range(clients[currentUserId[s]])

\* the frame handled last matched no case: its text did not parse, or the
\* parsed value had no type field
Unparsed == event.type = "unhandled" /\ event.data \in {"{", "null", "{}"}

\* C18: a payload that fails to parse, or that parses but has no type field,
\* produces no outbound event to any session and no uncaught error; the
\* connection stays open and the session states and the registry are unchanged.
C18_MalformedSwallowed ==
  [][Unparsed' =>
       /\ \A i \in 1..Len(fx') : fx'[i].kind = "console.error"
       /\ readyState'[event'.ws] = "OPEN"
       /\ readyState' = readyState
       /\ authenticated' = authenticated
       /\ currentUserId' = currentUserId
       /\ clients' = clients]_vars

\* text that is not JSON, swallowed on an Authenticated registered session
C18_Witness ==
  /\ event.type = "unhandled"
  /\ event.data = "{"
  /\ fx = <<[kind |-> "console.error"]>>
  /\ readyState[event.ws] = "OPEN"
  /\ authenticated[event.ws]
  /\ currentUserId[event.ws] \in DOMAIN clients
  /\ event.ws \in Range(clients[currentUserId[event.ws]])

\* C19: a frame of a known type that misses a required field (auth without
\* token; message without conversationId or without content and typing
\* without conversationId, on an Authenticated session) is swallowed: nothing
\* is sent to the sender or to any other session, nothing is persisted, and
\* the connection stays open.
C19_MissingFieldSwallowed ==
  [][(\/ event'.type = "auth" /\ event'.token = NoToken
      \/ /\ event'.type = "message"
         /\ authenticated[event'.ws]
         /\ event'.conversationId = NoConversation \/ event'.content = NoContent
      \/ /\ event'.type = "typing"
         /\ authenticated[event'.ws]
         /\ event'.conversationId = NoConversation) =>
       /\ \A i \in 1..Len(fx') : fx'[i].kind # "send"
       /\ messages' = messages
       /\ conversations' = conversations
       /\ readyState' = readyState]_vars

\* the frame handled last parsed to an object whose type is none of the four
UnknownType ==
  /\ event.type = "unhandled"
  /\ JSONparse(event.data).ok
  /\ TypeOf(JSONparse(event.data)) \notin InboundTypes \cup {"TypeError", "undefined"}

\* C20: a frame whose type is none of auth, message, typing and ping is
\* ignored in every session state: nothing is sent, and the session states,
\* the registry and the stored data are unchanged.
C20_UnknownTypeIgnored ==
  [][UnknownType' =>
       /\ fx' = <<>>
       /\ readyState' = readyState
       /\ authenticated' = authenticated
       /\ currentUserId' = currentUserId
       /\ clients' = clients
       /\ UNCHANGED dbVars]_vars

\* a frame of an unknown type ignored on an Authenticated registered session
\* while another session is Unauthenticated
C20_Witness ==
  /\ UnknownType
  /\ fx = <<>>
  /\ authenticated[event.ws]
  /\ currentUserId[event.ws] \in DOMAIN clients
  /\ event.ws \in Range(clients[currentUserId[event.ws]])
  /\ \E s \in Sessions : readyState[s] = "OPEN" /\ ~authenticated[s]

NetSessions(u) ==
  {s \in Sessions :
     /\ u \in Range(authLog[s])
     /\ ~(readyState[s] = "CLOSED" /\ currentUserId[s] = u)}

\* C22: after every sequence of registry additions (successful auths) and
\* removals (closes), user u is a key of clients if and only if the net
\* effect of the sequence leaves at least one session registered for u.
C22_OnlineIffNetSessions ==
  \A u \in Users : u \in DOMAIN clients <=> NetSessions(u) # {}

\* C23: the close-time removal is idempotent: run a second time for a
\* session whose close has been handled, or run for a session that is not in
\* the user's list, it leaves the registry as it is (and so deletes no key,
\* which is what emits an offline event).
C23_RemovalIdempotent ==
  /\ \A s \in Sessions :
       (readyState[s] = "CLOSED" /\ currentUserId[s] # NoUser) =>
         RegistryRemove(clients, currentUserId[s], s) = clients
  /\ \A u \in Users, s \in Sessions :
       (u \in DOMAIN clients /\ s \notin Range(clients[u])) =>
         RegistryRemove(clients, u, s) = clients

\* C24: the close of a session that never authenticated successfully,
\* whatever refused auth, message, typing or ping events it sent, changes no
\* registry entry, updates no stored status and emits nothing, so no
\* user_status event.
C24_CloseUnauthenticated ==
  [][(event'.type = "close" /\ authLog[event'.ws] = <<>>) =>
       /\ clients' = clients
       /\ userStatus' = userStatus
       /\ fx' = <<>>]_vars

\* the close of a never-authenticated session while a session of a user
\* with a non-empty audience is registered
C24_Witness ==
  /\ event.type = "close"
  /\ authLog[event.ws] = <<>>
  /\ ~authenticated[event.ws]
  /\ fx = <<>>
  /\ \E u \in DOMAIN clients : Audience(u) # {}

\* C25: a transport error on an authenticated session is cleaned up as a
\* close is: once the error and the close that the transport emits after it
\* have been handled, the session is in no list of the registry, and the
\* offline event of its user has been broadcast if no other session of that
\* user is live.
C25_ErrorCleansUp ==
  [][(/\ event.type = "error"
      /\ event'.type = "close"
      /\ event'.ws = event.ws
      /\ authLog[event.ws] # <<>>) =>
       LET ws == event.ws
           u == currentUserId[ws]
       IN  /\ \A v \in DOMAIN clients' : ws \notin Range(clients'[v])
           /\ (\A s \in Sessions \ {ws} : ~(Live(s) /\ currentUserId[s] = u)) =>
                OfflineBroadcastFor(fx', u)]_vars

\* the number of entries of session s in the list of user u in registry reg
EntriesOf(reg, u, s) ==
  IF u \in DOMAIN reg THEN Cardinality({i \in 1..Len(reg[u]) : reg[u][i] = s}) ELSE 0

C27_AuthenticatedOnce ==
  \A s \in Sessions : Len(authLog[s]) <= 1

\* the user whose presence the event handled last may have changed
Affected ==
  IF AuthSucceeded THEN event.token.userId
  ELSE IF event.type = "close" THEN currentUserId[event.ws]
  ELSE NoUser

\* C28: right after every successful auth and every close of a session bound
\* to a user, the stored status of that user is online if and only if the
\* user is a key of the registry.
C28_StatusReconciled ==
  Affected # NoUser =>
    (userStatus[Affected] = "online" <=> Affected \in DOMAIN clients)

\* a close that stored offline for its user while the stored status of
\* another user, who has no registered session, still says online
C28_Witness ==
  /\ event.type = "close"
  /\ Affected # NoUser
  /\ Affected \notin DOMAIN clients
  /\ userStatus[Affected] = "offline"
  /\ \E v \in Users \ DOMAIN clients : userStatus[v] = "online"

\* the open sessions registered under user u
OpenSessionsOf(u) ==
  IF u \in DOMAIN clients
  THEN {s \in Range(clients[u]) : readyState[s] = "OPEN"}
  ELSE {}

\* C29: for users A and B who share a conversation: when A authenticates,
\* the open sessions of B are sent user_status{A, online}; when A sends
\* message{C, "hi"}, the open sessions of A and of B are sent new_message
\* with one and the same payload; when the last session of B disconnects,
\* the open sessions of A are sent user_status{B, offline}.
C29_Scenario ==
  /\ AuthSucceeded =>
       \A b \in Audience(event.token.userId) :
         \A s \in OpenSessionsOf(b) :
           Send(s, UserStatus(event.token.userId, "online")) \in Range(fx)
  /\ (MessageSent /\ event.content = "hi"
        /\ InConversation(event.conversationId, currentUserId[event.ws])) =>
       LET a == currentUserId[event.ws]
           payload == NewMessage(messages[Len(messages)])
       IN  /\ payload.message.content = "hi"
           /\ \A m \in {a} \cup Audience(a) :
                InConversation(event.conversationId, m) =>
                  \A s \in OpenSessionsOf(m) : Send(s, payload) \in Range(fx)
           /\ \A i \in 1..Len(fx) : fx[i].kind = "send" => fx[i].payload = payload
  /\ (/\ event.type = "close"
      /\ currentUserId[event.ws] # NoUser
      /\ \A s \in Sessions : ~(Live(s) /\ currentUserId[s] = currentUserId[event.ws])) =>
       LET b == currentUserId[event.ws]
       IN  /\ b \notin DOMAIN clients
           /\ \A a \in Audience(b) :
                \A s \in OpenSessionsOf(a) :
                  Send(s, UserStatus(b, "offline")) \in Range(fx)

\* the end of the scenario: the last session of B has closed and a session
\* of A, who had sent "hi" to their conversation, is sent the offline event
C29_Witness ==
  /\ event.type = "close"
  /\ \E a \in Audience(currentUserId[event.ws]) :
       /\ \E k \in 1..Len(messages) :
            /\ messages[k].senderId = a
            /\ messages[k].content = "hi"
            /\ InConversation(messages[k].conversationId, currentUserId[event.ws])
       /\ \E s \in OpenSessionsOf(a) :
            Send(s, UserStatus(currentUserId[event.ws], "offline")) \in Range(fx)

\* the identity the last successful auth of session s bound to it
BoundIdentity(s) ==
  IF authLog[s] = <<>> THEN NoUser ELSE authLog[s][Len(authLog[s])]

\* C30: the senderId of every message handed to the store and the userId of
\* every typing event sent out is the identity that the session's auth
\* bound to it, whatever user id the inbound frame carries.
C30_IdentityFromAuth ==
  /\ event.type = "message" =>
       \A i \in 1..Len(fx) :
         fx[i].kind = "createMessage" =>
           /\ BoundIdentity(event.ws) # NoUser
           /\ fx[i].message.senderId = BoundIdentity(event.ws)
  /\ event.type = "typing" =>
       \A i \in 1..Len(fx) :
         (fx[i].kind = "send" /\ fx[i].payload.type = "typing") =>
           /\ BoundIdentity(event.ws) # NoUser
           /\ fx[i].payload.userId = BoundIdentity(event.ws)

\* a message stored for a frame that names another user as its sender
C30_Witness ==
  /\ event.type = "message"
  /\ event.payloadUserId \notin {NoUser, BoundIdentity(event.ws)}
  /\ \E i \in 1..Len(fx) :
       /\ fx[i].kind = "createMessage"
       /\ fx[i].message.senderId = BoundIdentity(event.ws)
       /\ messages[Len(messages)] = fx[i].message

\* a typing event sent out for a frame that names another user
C30_WitnessTyping ==
  /\ event.type = "typing"
  /\ event.payloadUserId \notin {NoUser, BoundIdentity(event.ws)}
  /\ \E i \in 1..Len(fx) :
       /\ fx[i].kind = "send"
       /\ fx[i].payload.type = "typing"
       /\ fx[i].payload.userId = BoundIdentity(event.ws)

\* C31: a message is stored and sent on, and a typing event is sent on, only
\* when the user bound to the sending session is a member of the
\* conversation the frame names.
C31_MembersOnly ==
  /\ (event.type = "message"
        /\ \E i \in 1..Len(fx) : fx[i].kind \in {"createMessage", "send", "broadcast"}
        /\ authenticated[event.ws]) =>
       InConversation(event.conversationId, currentUserId[event.ws])
  /\ (event.type = "typing" /\ \E i \in 1..Len(fx) : fx[i].kind = "send") =>
       InConversation(event.conversationId, currentUserId[event.ws])

\* C32: an auth event with a refused token on a session that is already
\* Authenticated sends auth_error to that session and nothing else (no
\* user_status event), and leaves the session Authenticated, registered as
\* before and bound to the same identity.
C32_FailedReauthKeepsSession ==
  [][(event'.type = "auth" /\ ~event'.token.signed /\ authenticated[event'.ws]) =>
       /\ fx' = <<Send(event'.ws, AuthError)>>
       /\ authenticated'[event'.ws]
       /\ currentUserId'[event'.ws] = currentUserId[event'.ws]
       /\ currentUserId[event'.ws] \in DOMAIN clients'
       /\ event'.ws \in Range(clients'[currentUserId[event'.ws]])
       /\ UNCHANGED <<clients, authLog, userStatus, offlineCount, readyState>>]_vars

\* an Authenticated, registered session that has just been sent auth_error
C32_Witness ==
  /\ event.type = "auth"
  /\ ~event.token.signed
  /\ authLog[event.ws] # <<>>
  /\ authenticated[event.ws]
  /\ currentUserId[event.ws] \in DOMAIN clients
  /\ event.ws \in Range(clients[currentUserId[event.ws]])
  /\ fx = <<Send(event.ws, AuthError)>>

\* the handler just run broadcast user_status online for u
OnlineBroadcastFor(f, u) ==
  \E i \in 1..Len(f) : f[i].kind = "broadcast" /\ f[i].payload = UserStatus(u, "online")

\* C33: for every user u, an offline event for u is preceded by an online
\* event for u since the previous offline event for u (or since the start),
\* so that two offline events for u never occur with no online event for u
\* in between.  Checked step by step through the registry key of u: an
\* offline event for u is broadcast only by a step that finds u a key and
\* removes the key, at most once in a step, and every step that makes u a
\* key broadcasts an online event for u; u is no key at the start.
C33_OfflineAlternates ==
  [][\A u \in Users \cup {NoUser} :
       /\ OfflineBroadcastFor(fx', u) =>
            /\ u \in DOMAIN clients
            /\ u \notin DOMAIN clients'
            /\ ~OnlineBroadcastFor(fx', u)
            /\ Len(SelectSeq(fx', LAMBDA e : e.kind = "broadcast")) = 1
       /\ (u \notin DOMAIN clients /\ u \in DOMAIN clients') =>
            /\ OnlineBroadcastFor(fx', u)
            /\ ~OfflineBroadcastFor(fx', u)]_vars

\* the second offline event for a user, who came online again in between
C33_Witness ==
  /\ event.type = "close"
  /\ \E u \in Users :
       /\ OfflineBroadcastFor(fx, u)
       /\ offlineCount[u] >= 2
       /\ u \notin DOMAIN clients
       /\ \E s \in Sessions : Len(SelectSeq(authLog[s], LAMBDA a : a = u)) >= 1

\* no value occurs twice in the sequence
NoRepeat(seq) == \A i, j \in 1..Len(seq) : seq[i] = seq[j] => i = j

\* C34: after any sequence of conversation creations and member additions
\* the membership table holds at most one record per pair of conversation
\* and user, so that getConversationMembers lists no user twice.
C34_OneRecordPerMember ==
  /\ NoRepeat(conversationMembers)
  /\ \A c \in ExistingConvIds :
       NoRepeat(getConversationMembers(conversationMembers, c))

\* a member added again: the addition just handled names a user whose
\* record was already in the table, before later records
C34_Witness ==
  /\ event.type = "addMember"
  /\ \E k \in 1..Len(conversationMembers) :
       /\ k < Len(conversationMembers)
       /\ conversationMembers[k].conversationId = event.conversationId
       /\ conversationMembers[k].userId = event.userId
  /\ NoRepeat(getConversationMembers(conversationMembers, event.conversationId))

\* the non-group conversations of convs whose members in cm are exactly the
\* users of the set pair
DirectOf(convs, cm, pair) ==
  {i \in 1..Len(convs) :
     /\ ~convs[i].isGroup
     /\ Len(getConversationMembers(cm, convs[i].id)) = 2
     /\ Range(getConversationMembers(cm, convs[i].id)) = pair}

\* no two conversations are two-member direct conversations of one pair
DirectPairsUnique(convs, cm) ==
  \A p \in SUBSET Users : Cardinality(DirectOf(convs, cm, p)) <= 1

\* C35: a createConversation call for a non-group pair of users, in either
\* order of the two ids, that finds a non-group conversation whose members
\* are exactly those two users answers with such a conversation and adds no
\* conversation and no membership record; and no createConversation call
\* makes a second two-member direct conversation for a pair.
C35_DirectIdempotent ==
  [][(event'.type = "createConversation" /\ ~event'.isGroup) =>
       LET pair == {event'.userId} \cup Range(event'.memberIds)
           existing == DirectOf(conversations, conversationMembers, pair)
       IN  /\ (Cardinality(pair) = 2 /\ existing # {}) =>
                /\ UNCHANGED <<conversations, conversationMembers>>
                /\ Len(fx') = 1
                /\ fx'[1].kind = "res.json"
                /\ \E i \in existing : fx'[1].conversationId = conversations[i].id
           /\ DirectPairsUnique(conversations, conversationMembers) =>
                DirectPairsUnique(conversations', conversationMembers')]_vars

\* the direct conversation made first is the answer to a call by its other
\* member, after another conversation has been made
C35_Witness ==
  /\ event.type = "createConversation"
  /\ ~event.isGroup
  /\ Len(conversations) = 2
  /\ fx = <<[kind |-> "res.json", conversationId |-> conversations[1].id]>>
  /\ getConversationMembers(conversationMembers, conversations[1].id)
       = <<CHOOSE u \in Users : u # event.userId, event.userId>>
  /\ Range(event.memberIds) \cup {event.userId}
       = Range(getConversationMembers(conversationMembers, conversations[1].id))

\* C36: after any sequence of new_message events, the same message delivered
\* again included, the message list of no conversation holds two messages
\* with the same id, and a message delivered again leaves the whole client
\* store as it was.
C36_NoDuplicateMessages ==
  [][event'.type = "client.new_message" =>
       /\ \A c \in DOMAIN storeMessages' :
            NoRepeat([i \in 1..Len(storeMessages'[c]) |-> storeMessages'[c][i].id])
       /\ (\E i \in 1..Len(convMessagesOf(storeMessages, event'.message.conversationId)) :
             storeMessages[event'.message.conversationId][i].id = event'.message.id) =>
            UNCHANGED clientVars]_vars

\* a message delivered again after a later message of its conversation
C36_Witness ==
  /\ event.type = "client.new_message"
  /\ storeConversations # <<>>
  /\ event.message.conversationId \in DOMAIN storeMessages
  /\ LET list == storeMessages[event.message.conversationId]
     IN  /\ Len(list) = 2
         /\ list[1] = event.message
         /\ list[2].id # event.message.id

\* the pairs of conversation and user listed in a typingUsers list
TypingPairs(list) == [i \in 1..Len(list) |-> <<list[i].conversationId, list[i].userId>>]

\* C37: after any sequence of typing events and timer expiries typingUsers
\* holds at most one entry per pair of conversation and user; a typing
\* event with isTyping false removes the entry of its pair; and the entry
\* of a pair is gone once a timer started by a typing event for that pair
\* fires, every entry having such a timer pending.
C37_TypingEntries ==
  [][event'.type \in {"client.typing", "client.typingTimer"} =>
       LET pair == <<event'.conversationId, event'.userId>>
       IN  /\ NoRepeat(TypingPairs(typingUsers'))
           /\ (event'.type = "client.typing" /\ ~event'.isTyping) =>
                (\A i \in 1..Len(typingUsers') : TypingPairs(typingUsers')[i] # pair)
           /\ event'.type = "client.typingTimer" =>
                (\A i \in 1..Len(typingUsers') : TypingPairs(typingUsers')[i] # pair)
           /\ \A i \in 1..Len(typingUsers') :
                BagIn(TypingPairs(typingUsers')[i], typingTimers')]_vars

\* a user announced as typing again while listed, before a later entry
C37_Witness ==
  /\ event.type = "client.typing"
  /\ event.isTyping
  /\ Len(typingUsers) = 2
  /\ TypingPairs(typingUsers)[1] = <<event.conversationId, event.userId>>
  /\ CopiesIn(<<event.conversationId, event.userId>>, typingTimers) = 2

\* the sockets of the client that are open
OpenSockets(ss) == {k \in ClientSockets : ss[k] = "OPEN"}

\* C38: under any interleaving of connect, disconnect, close events and
\* reconnect timers the client has at most one open WebSocket, the ws field
\* of the store is that socket (null, or a socket still connecting, when
\* none is open); the close event of a socket other than the stored one
\* leaves the ws field as it is; and a reconnect timer that fires while the
\* token is absent makes no socket.
C38_OneSocket ==
  [][/\ Cardinality(OpenSockets(socketState')) <= 1
     /\ \A k \in OpenSockets(socketState') : storeWs' = k
     /\ (event'.type = "client.close" /\ storeWs \notin {NoSocket, event'.socket}) =>
          storeWs' = storeWs
     /\ (event'.type = "client.reconnectTimer" /\ ~authToken) =>
          UNCHANGED <<socketState, storeWs>>]_vars
====
